---- MODULE Spec2Model ----
(***************************************************************************)
(* Model of the rosbags message-definition type system:                    *)
(*   src/src/rosbags/typesys/base.py  (normalize_fieldname, hash_rihs01)   *)
(*   src/src/rosbags/typesys/msg.py   (name normalisation, VisitorMSG,     *)
(*                                     gendefhash, generate_msgdef)        *)
(*                                                                         *)
(* Representation.  A type name such as pkg/msg/Foo is the sequence of its *)
(* slash-separated segments <<"pkg","msg","Foo">>, which is what           *)
(* PurePosixPath(name).parts holds; an identifier of a field is the        *)
(* sequence of its characters, so that rstrip('_') is computed letter by   *)
(* letter.  A text is the sequence of its lines, a line the sequence of    *)
(* its tokens.                                                             *)
(***************************************************************************)
EXTENDS Naturals, Sequences, FiniteSets, TLC

VARIABLES
    \* normalize_msgtype / denormalize_msgtype applied to a name
    nmOrig, nmCur, nmOps, nmErr,
    \* an identifier on its way visit_field_dcl -> IR -> gendefhash
    idSrc, idIr, idOut, idPc,
    \* parse_message_definition with VisitorMSG: the source batch, the
    \* msgdefs visited so far, and the returned dictionary
    psInput, typelist, res, psPc,
    \* hash_rihs01: the type store, the requested type, the call stack of
    \* get_struct, struct_cache, the get_struct bodies entered, the outcome
    rsStore, rsRoot, rsStack, struct_cache, rsCalls, rsResult, rsPc,
    \* gendefhash: the type store, the requested type, ros_version, the
    \* caller's subdefs before the call and now, the call stack, the
    \* gendefhash bodies entered, the outcome
    gsStore, gsRoot, gsRos, gsSubdefs0, subdefs, gsStack, gsCalls, gsResult, gsPc,
    \* generate_msgdef: the types whose gendefhash body was entered, in the
    \* order of the calls, and the returned pair
    gsEntered, gsMsgdef

nameVars  == <<nmOrig, nmCur, nmOps, nmErr>>
identVars == <<idSrc, idIr, idOut, idPc>>
parseVars == <<psInput, typelist, res, psPc>>
rihsVars  == <<rsStore, rsRoot, rsStack, struct_cache, rsCalls, rsResult, rsPc>>
genVars   == <<gsStore, gsRoot, gsRos, gsSubdefs0, subdefs, gsStack, gsCalls, gsResult, gsPc,
               gsEntered, gsMsgdef>>
vars == <<nameVars, identVars, parseVars, rihsVars, genVars>>

(***************************************************************************)
(* Bounds of the model.                                                    *)
(***************************************************************************)
MaxSegs  == 3   \* segments of a scoped name drawn as an input
MaxOps   == 2   \* name conversions applied in a row
MaxIdLen == 3   \* characters of an identifier drawn as an input
MaxDefSegs == 2 \* segments of the scoped name after MSG: in a parsed batch
MaxNum   == 2   \* array lengths, sequence bounds and string bounds
MaxDepth == 4   \* nested calls before the interpreter raises RecursionError

\* Identifier segments the inputs are drawn from.
Segs == {"pkg", "msg", "Header"}

\* Characters the identifiers are drawn from ("as" is a Python keyword).
Chars == {"a", "s", "_"}

SeqsUpTo(S, n) == UNION {[1..k -> S] : k \in 1..n}

\* scoped_name = identifier '/' scoped_name / identifier
ScopedNames == SeqsUpTo(Segs, MaxSegs)

\* identifier = r'[a-zA-Z_][a-zA-Z_0-9]*'
Identifiers == SeqsUpTo(Chars, MaxIdLen)

(***************************************************************************)
(* pathlib.PurePosixPath on segment sequences.                             *)
(***************************************************************************)
PathParent(p) == IF Len(p) = 0 THEN p ELSE SubSeq(p, 1, Len(p) - 1)

PathName(p) == IF Len(p) = 0 THEN "" ELSE p[Len(p)]

\* '/' in name
HasSlash(n) == Len(n) > 1

\* '/msg/' in name: a segment msg with a segment on either side
HasMsgInfix(n) == \E i \in 2..(Len(n) - 1) : n[i] = "msg"

(***************************************************************************)
(* msg.py: message type names.                                             *)
(***************************************************************************)
normalize_msgtype(name) ==
    IF PathName(PathParent(name)) # "msg"
    THEN PathParent(name) \o <<"msg", PathName(name)>>
    ELSE name

\* the value returned when the assertion holds
denormalize_msgtype(typename) ==
    PathParent(PathParent(typename)) \o <<PathName(typename)>>

\* assert '/msg/' in typename
denormalize_ok(typename) == HasMsgInfix(typename)

InitName ==
    /\ nmOrig \in ScopedNames
    /\ nmCur = nmOrig
    /\ nmOps = <<>>
    /\ nmErr = FALSE

IdleName ==
    /\ nmOrig = <<>>
    /\ nmCur = <<>>
    /\ nmOps = <<>>
    /\ nmErr = TRUE

NormalizeMsgtype ==
    /\ ~nmErr
    /\ Len(nmOps) < MaxOps
    /\ nmCur' = normalize_msgtype(nmCur)
    /\ nmOps' = Append(nmOps, "normalize")
    /\ UNCHANGED <<nmOrig, nmErr>>
    /\ UNCHANGED <<identVars, parseVars, rihsVars, genVars>>

DenormalizeMsgtype ==
    /\ ~nmErr
    /\ Len(nmOps) < MaxOps
    /\ IF denormalize_ok(nmCur)
       THEN /\ nmCur' = denormalize_msgtype(nmCur)
            /\ nmErr' = FALSE
       ELSE /\ nmCur' = nmCur          \* AssertionError
            /\ nmErr' = TRUE
    /\ nmOps' = Append(nmOps, "denormalize")
    /\ UNCHANGED nmOrig
    /\ UNCHANGED <<identVars, parseVars, rihsVars, genVars>>

NextName == NormalizeMsgtype \/ DenormalizeMsgtype

(***************************************************************************)
(* base.py: field and constant identifiers.                                *)
(***************************************************************************)
\* keyword.kwlist of the host language
Kwlist ==
    { <<"F","a","l","s","e">>,
      <<"N","o","n","e">>,
      <<"T","r","u","e">>,
      <<"a","n","d">>,
      <<"a","s">>,
      <<"a","s","s","e","r","t">>,
      <<"a","s","y","n","c">>,
      <<"a","w","a","i","t">>,
      <<"b","r","e","a","k">>,
      <<"c","l","a","s","s">>,
      <<"c","o","n","t","i","n","u","e">>,
      <<"d","e","f">>,
      <<"d","e","l">>,
      <<"e","l","i","f">>,
      <<"e","l","s","e">>,
      <<"e","x","c","e","p","t">>,
      <<"f","i","n","a","l","l","y">>,
      <<"f","o","r">>,
      <<"f","r","o","m">>,
      <<"g","l","o","b","a","l">>,
      <<"i","f">>,
      <<"i","m","p","o","r","t">>,
      <<"i","n">>,
      <<"i","s">>,
      <<"l","a","m","b","d","a">>,
      <<"n","o","n","l","o","c","a","l">>,
      <<"n","o","t">>,
      <<"o","r">>,
      <<"p","a","s","s">>,
      <<"r","a","i","s","e">>,
      <<"r","e","t","u","r","n">>,
      <<"t","r","y">>,
      <<"w","h","i","l","e">>,
      <<"w","i","t","h">>,
      <<"y","i","e","l","d">> }

normalize_fieldname(name) ==
    IF name \in Kwlist THEN Append(name, "_") ELSE name

\* name.rstrip('_')
RECURSIVE rstrip_underscore(_)
rstrip_underscore(name) ==
    IF Len(name) > 0 /\ name[Len(name)] = "_"
    THEN rstrip_underscore(SubSeq(name, 1, Len(name) - 1))
    ELSE name

InitIdent ==
    /\ idSrc \in Identifiers
    /\ idIr = <<>>
    /\ idOut = <<>>
    /\ idPc = "source"

IdleIdent ==
    /\ idSrc = <<>>
    /\ idIr = <<>>
    /\ idOut = <<>>
    /\ idPc = "idle"

\* visit_field_dcl / visit_const_dcl: the identifier as stored in the IR
VisitDclName ==
    /\ idPc = "source"
    /\ idIr' = normalize_fieldname(idSrc)
    /\ idPc' = "ir"
    /\ UNCHANGED <<idSrc, idOut>>
    /\ UNCHANGED <<nameVars, parseVars, rihsVars, genVars>>

\* gendefhash: the identifier as written into deftext and hashtext
EmitStrippedName ==
    /\ idPc = "ir"
    /\ idOut' = rstrip_underscore(idIr)
    /\ idPc' = "emitted"
    /\ UNCHANGED <<idSrc, idIr>>
    /\ UNCHANGED <<nameVars, parseVars, rihsVars, genVars>>

NextIdent == VisitDclName \/ EmitStrippedName

(***************************************************************************)
(* Field descriptors.  A descriptor (node, args) is the record             *)
(*   [node, inner, num]: for ARRAY and SEQUENCE inner is args[0] and num   *)
(*   is args[1]; for BASE and NAME inner is the descriptor itself.         *)
(* An inner descriptor is [node, name, bound, tup]: NAME(name), or         *)
(* BASE(name, bound) with tup = TRUE when its argument is the pair         *)
(* (name, bound) and tup = FALSE when it is the bare string name.          *)
(***************************************************************************)
BASE     == 1
NAME     == 2
ARRAY    == 3
SEQUENCE == 4

BaseDesc(b, bound) ==
    LET i == [node |-> BASE, name |-> <<b>>, bound |-> bound, tup |-> TRUE]
    IN  [node |-> BASE, inner |-> i, num |-> 0]

\* (1, 'uint8'): the argument is the bare string
BareBaseDesc(b) ==
    LET i == [node |-> BASE, name |-> <<b>>, bound |-> 0, tup |-> FALSE]
    IN  [node |-> BASE, inner |-> i, num |-> 0]

NameDesc(n) ==
    LET i == [node |-> NAME, name |-> n, bound |-> 0, tup |-> FALSE]
    IN  [node |-> NAME, inner |-> i, num |-> 0]

ArrayDesc(d, length) == [node |-> ARRAY, inner |-> d.inner, num |-> length]

SequenceDesc(d, bound) == [node |-> SEQUENCE, inner |-> d.inner, num |-> bound]

(***************************************************************************)
(* msg.py: VisitorMSG.                                                     *)
(***************************************************************************)
BASETYPES ==
    {"bool", "octet", "int8", "int16", "int32", "int64", "uint8", "uint16",
     "uint32", "uint64", "float32", "float64", "string"}

TimeName     == <<"builtin_interfaces", "msg", "Time">>
DurationName == <<"builtin_interfaces", "msg", "Duration">>
HeaderName   == <<"std_msgs", "msg", "Header">>

\* A source simple_type_spec is [bstring, name, bound]: 'string<=bound' when
\* bstring, the scoped name otherwise.
visit_simple_type_spec(src) ==
    IF src.bstring
    THEN BaseDesc("string", src.bound)
    ELSE LET typespec ==
                 IF src.name = <<"time">> THEN TimeName
                 ELSE IF src.name = <<"duration">> THEN DurationName
                 ELSE IF src.name = <<"byte">> THEN <<"octet">>
                 ELSE IF src.name = <<"char">> THEN <<"uint8">>
                 ELSE src.name
         IN  IF Len(typespec) = 1 /\ typespec[1] \in BASETYPES
             THEN BaseDesc(typespec[1], 0)
             ELSE NameDesc(typespec)

\* array_size = '[' integer_literal? ']': has says whether the integer is there
visit_array_type_spec(d, has, length) ==
    IF has THEN ArrayDesc(d, length) ELSE SequenceDesc(d, 0)

\* array_bounds = '[<=' integer_literal ']'
visit_bounded_array_type_spec(d, bound) == SequenceDesc(d, bound)

\* type_spec = array_type_spec / bounded_array_type_spec / simple_type_spec
\* A source suffix is [kind, has, n] with kind "none", "size" or "bounds".
visit_type_spec(src) ==
    LET d == visit_simple_type_spec(src.simple)
    IN  IF src.suffix.kind = "size"
        THEN visit_array_type_spec(d, src.suffix.has, src.suffix.n)
        ELSE IF src.suffix.kind = "bounds"
        THEN visit_bounded_array_type_spec(d, src.suffix.n)
        ELSE d

visit_field_dcl(src) ==
    [name |-> normalize_fieldname(src.ident), desc |-> visit_type_spec(src)]

visit_msgdef(src) ==
    [name  |-> normalize_msgtype(src.name),
     items |-> [i \in 1..Len(src.items) |-> visit_field_dcl(src.items[i])]]

\* dict(typelist): a key keeps the place of its first entry and the value
\* of its last one
DictKeys(tl) ==
    LET first == {i \in 1..Len(tl) : \A j \in 1..(i - 1) : tl[j].name # tl[i].name}
        RECURSIVE pick(_)
        pick(i) == IF i > Len(tl) THEN <<>>
                   ELSE IF i \in first THEN <<tl[i].name>> \o pick(i + 1)
                   ELSE pick(i + 1)
    IN  pick(1)

DictGet(tl, key) ==
    LET last == CHOOSE i \in 1..Len(tl) :
                    /\ tl[i].name = key
                    /\ \A j \in (i + 1)..Len(tl) : tl[j].name # key
    IN  tl[last].items

\* dct = {Path(name).name: name for name in names}; dct[leaf]
LeafDict(names, leaf) ==
    LET last == CHOOSE i \in 1..Len(names) :
                    /\ PathName(names[i]) = leaf
                    /\ \A j \in (i + 1)..Len(names) : PathName(names[j]) # leaf
    IN  names[last]

InLeafDict(names, name) ==
    /\ Len(name) = 1
    /\ \E i \in 1..Len(names) : PathName(names[i]) = name[1]

\* Faulty variant: 'Header' is tested before the batch-declared names.
normalize_fieldtype_header_first(typename, field, names) ==
    IF field.node = BASE THEN field
    ELSE IF field.inner.node = BASE THEN field
    ELSE LET name == field.inner.name
             new  == IF name = <<"Header">> THEN HeaderName
                     ELSE IF InLeafDict(names, name) THEN LeafDict(names, name[1])
                     ELSE IF ~HasSlash(name) THEN PathParent(typename) \o name
                     ELSE IF ~HasMsgInfix(name)
                          THEN PathParent(name) \o <<"msg", PathName(name)>>
                     ELSE name
             ifield == NameDesc(new)
         IN  IF field.node = NAME THEN ifield
             ELSE [node |-> field.node, inner |-> ifield.inner, num |-> field.num]

\* Faulty variant: a name with '/' is never given its msg infix.
normalize_fieldtype_no_infix(typename, field, names) ==
    IF field.node = BASE THEN field
    ELSE IF field.inner.node = BASE THEN field
    ELSE LET name == field.inner.name
             new  == IF InLeafDict(names, name) THEN LeafDict(names, name[1])
                     ELSE IF name = <<"Header">> THEN HeaderName
                     ELSE IF ~HasSlash(name) THEN PathParent(typename) \o name
                     ELSE name
             ifield == NameDesc(new)
         IN  IF field.node = NAME THEN ifield
             ELSE [node |-> field.node, inner |-> ifield.inner, num |-> field.num]

normalize_fieldtype(typename, field, names) ==
    IF field.node = BASE THEN field
    ELSE IF field.inner.node = BASE THEN field
    ELSE LET name == field.inner.name
             new  == IF InLeafDict(names, name) THEN LeafDict(names, name[1])
                     ELSE IF name = <<"Header">> THEN HeaderName
                     ELSE IF ~HasSlash(name) THEN PathParent(typename) \o name
                     ELSE IF ~HasMsgInfix(name)
                          THEN PathParent(name) \o <<"msg", PathName(name)>>
                     ELSE name
             ifield == NameDesc(new)
         IN  IF field.node = NAME THEN ifield
             ELSE [node |-> field.node, inner |-> ifield.inner, num |-> field.num]

visit_specification(tl) ==
    LET names == DictKeys(tl)
    IN  [k \in 1..Len(names) |->
            LET items == DictGet(tl, names[k])
            IN  [name   |-> names[k],
                 fields |-> [i \in 1..Len(items) |->
                                [name |-> items[i].name,
                                 desc |-> normalize_fieldtype(names[k], items[i].desc, names)]]]]

\* Sources the parsed batches are drawn from.
SrcTypeNames ==
    ScopedNames \cup {<<"time">>, <<"byte">>, <<"int32">>, <<"string">>}

SrcSimple ==
    [bstring : {FALSE}, name : SrcTypeNames, bound : {0}]
        \cup [bstring : {TRUE}, name : {<<"string">>}, bound : {MaxNum}]

SrcSuffix ==
    { [kind |-> "none", has |-> FALSE, n |-> 0],
      [kind |-> "size", has |-> FALSE, n |-> 0],
      [kind |-> "size", has |-> TRUE, n |-> MaxNum],
      [kind |-> "bounds", has |-> TRUE, n |-> MaxNum] }

SrcField == [simple : SrcSimple, suffix : SrcSuffix, ident : {<<"a", "s">>}]

\* specification = msgdef (msgsep msgdef)*: a first msgdef with one field,
\* and possibly a second one, pkg/Name, without fields
InitParse ==
    /\ \E nm \in SeqsUpTo(Segs, MaxDefSegs), f \in SrcField :
         \E rest \in {<<>>} \cup {<<[name |-> n2, items |-> <<>>]>> : n2 \in [1..2 -> Segs]} :
            psInput = <<[name |-> nm, items |-> <<f>>]>> \o rest
    /\ typelist = <<>>
    /\ res = <<>>
    /\ psPc = "visit"

IdleParse ==
    /\ psInput = <<>>
    /\ typelist = <<>>
    /\ res = <<>>
    /\ psPc = "idle"

\* the visitor is called bottom-up: every msgdef before the specification
VisitMsgdef ==
    /\ psPc = "visit"
    /\ Len(typelist) < Len(psInput)
    /\ typelist' = Append(typelist, visit_msgdef(psInput[Len(typelist) + 1]))
    /\ UNCHANGED <<psInput, res, psPc>>
    /\ UNCHANGED <<nameVars, identVars, rihsVars, genVars>>

VisitSpecification ==
    /\ psPc = "visit"
    /\ Len(typelist) = Len(psInput)
    /\ res' = visit_specification(typelist)
    /\ psPc' = "done"
    /\ UNCHANGED <<psInput, typelist>>
    /\ UNCHANGED <<nameVars, identVars, rihsVars, genVars>>

NextParse == VisitMsgdef \/ VisitSpecification

(***************************************************************************)
(* base.py: hash_rihs01.                                                   *)
(***************************************************************************)
TIDMAP ==
    ("int8" :> 2) @@ ("uint8" :> 3) @@ ("int16" :> 4) @@ ("uint16" :> 5) @@
    ("int32" :> 6) @@ ("uint32" :> 7) @@ ("int64" :> 8) @@ ("uint64" :> 9) @@
    ("float32" :> 10) @@ ("float64" :> 11) @@ ("float128" :> 12) @@
    ("char" :> 13) @@ ("bool" :> 15) @@ ("octet" :> 16) @@ ("string" :> 17) @@
    ("bounded_string" :> 21)

\* Faulty variant: the two node tests are exchanged.
get_field_shape_swapped(desc) ==
    IF desc.node = 4
    THEN [increment |-> 48, capacity |-> desc.num]
    ELSE IF desc.node = 3
    THEN IF desc.num # 0
         THEN [increment |-> 96, capacity |-> desc.num]
         ELSE [increment |-> 144, capacity |-> 0]
    ELSE [increment |-> 0, capacity |-> 0]

\* get_field, lines 132-149: increment and capacity
get_field_shape(desc) ==
    IF desc.node = 3
    THEN [increment |-> 48, capacity |-> desc.num]
    ELSE IF desc.node = 4
    THEN IF desc.num # 0
         THEN [increment |-> 96, capacity |-> desc.num]
         ELSE [increment |-> 144, capacity |-> 0]
    ELSE [increment |-> 0, capacity |-> 0]

\* get_field, lines 151-174: the returned dictionary (typ, rest = the inner
\* descriptor); the call of get_struct is made by the action GetField
get_field(name, desc) ==
    LET shape == get_field_shape(desc)
        rest  == desc.inner
        tid   == IF rest.node = 2 THEN shape.increment + 1
                 ELSE IF rest.tup
                 THEN IF rest.bound # 0
                      THEN shape.increment + TIDMAP["bounded_string"]
                      ELSE shape.increment + TIDMAP["string"]
                 ELSE shape.increment + TIDMAP[rest.name[1]]
    IN  [name             |-> name,
         type_id          |-> tid,
         capacity         |-> shape.capacity,
         string_capacity  |-> IF rest.node # 2 /\ rest.tup /\ rest.bound # 0
                              THEN rest.bound ELSE 0,
         nested_type_name |-> IF rest.node = 2 THEN rest.name ELSE <<>>]

\* typestore.FIELDDEFS[typ][1] or [('structure_needs_at_least_one_member', (1, 'uint8'))]
SentinelName ==
    <<"s","t","r","u","c","t","u","r","e","_","n","e","e","d","s","_","a","t","_",
      "l","e","a","s","t","_","o","n","e","_","m","e","m","b","e","r">>

StructFields(store, typ) ==
    IF store[typ] # <<>> THEN store[typ]
    ELSE <<[name |-> SentinelName, desc |-> BareBaseDesc("uint8")]>>

\* Types of the stores the hash generators are run on.
TypeA == <<"pkg", "msg", "A">>
TypeB == <<"pkg", "msg", "B">>

\* sorted(struct_cache.items()): the order of the type names as strings
TypeRank(typ) == IF typ = TypeA THEN 1 ELSE 2

SortedNames(S) ==
    LET RECURSIVE sorted(_)
        sorted(T) == IF T = {} THEN <<>>
                     ELSE LET m == CHOOSE x \in T : \A y \in T : TypeRank(x) <= TypeRank(y)
                          IN  <<m>> \o sorted(T \ {m})
    IN  sorted(S)

\* the dictionary that is serialized and hashed
rihs_dct(typ, cache) ==
    LET refs == SortedNames(DOMAIN cache \ {typ})
    IN  [type_description |-> cache[typ],
         referenced_type_descriptions |-> [i \in 1..Len(refs) |-> cache[refs[i]]]]

RihsInner ==
    {BaseDesc(b, 0) : b \in BASETYPES}
        \cup {BaseDesc("string", k) : k \in 1..MaxNum}
        \cup {BareBaseDesc(b) : b \in BASETYPES}
        \cup {NameDesc(TypeA), NameDesc(TypeB)}

RihsDescs ==
    RihsInner
        \cup {ArrayDesc(d, n) : d \in RihsInner, n \in 0..MaxNum}
        \cup {SequenceDesc(d, n) : d \in RihsInner, n \in 0..MaxNum}

FieldX == <<"x">>
FieldY == <<"y">>

InitRihs ==
    /\ \E d \in RihsDescs :
         \E more \in {<<>>, <<[name |-> FieldY, desc |-> NameDesc(TypeB)]>>} :
            \E fb \in {<<>>,
                       <<[name |-> FieldX, desc |-> NameDesc(TypeA)]>>,
                       <<[name |-> FieldX, desc |-> NameDesc(TypeB)]>>,
                       <<[name |-> FieldX, desc |-> BaseDesc("int32", 0)]>>} :
               rsStore = (TypeA :> (<<[name |-> FieldX, desc |-> d]>> \o more))
                            @@ (TypeB :> fb)
    /\ rsRoot \in {TypeA, TypeB}
    /\ rsStack = <<>>
    /\ struct_cache = <<>>
    /\ rsCalls = 0
    /\ rsResult = <<>>
    /\ rsPc = "call"

IdleRihs ==
    /\ rsStore = <<>>
    /\ rsRoot = <<>>
    /\ rsStack = <<>>
    /\ struct_cache = <<>>
    /\ rsCalls = 0
    /\ rsResult = <<>>
    /\ rsPc = "idle"

\* get_struct(typ) with typ not in struct_cache: the comprehension starts
EnterStruct(stack, typ) == Append(stack, [typ |-> typ, idx |-> 1, fields |-> <<>>])

\* hash_rihs01 up to its call get_struct(typ), lines 176-193
HashRihs01 ==
    /\ rsPc = "call"
    /\ struct_cache' = <<>>
    /\ rsStack' = EnterStruct(<<>>, rsRoot)
    /\ rsCalls' = 1
    /\ rsPc' = "run"
    /\ UNCHANGED <<rsStore, rsRoot, rsResult>>
    /\ UNCHANGED <<nameVars, identVars, parseVars, genVars>>

\* one get_field of the comprehension of the innermost get_struct
GetField ==
    /\ rsPc = "run"
    /\ LET top == rsStack[Len(rsStack)]
           fs  == StructFields(rsStore, top.typ)
       IN  /\ top.idx <= Len(fs)
           /\ LET f   == fs[top.idx]
                  sub == f.desc.inner.name
              IN  IF f.desc.inner.node = 2 /\ sub \notin DOMAIN struct_cache
                  THEN \* get_struct(subtype) evaluates the fields of subtype
                       IF Len(rsStack) >= MaxDepth
                       THEN /\ rsPc' = "RecursionError"
                            /\ rsStack' = <<>>
                            /\ UNCHANGED rsCalls
                       ELSE /\ rsStack' = EnterStruct(rsStack, sub)
                            /\ rsCalls' = rsCalls + 1
                            /\ UNCHANGED rsPc
                  ELSE /\ rsStack' = [rsStack EXCEPT ![Len(rsStack)] =
                                         [top EXCEPT !.idx = top.idx + 1,
                                                     !.fields = Append(top.fields, get_field(f.name, f.desc))]]
                       /\ UNCHANGED <<rsCalls, rsPc>>
    /\ UNCHANGED <<rsStore, rsRoot, struct_cache, rsResult>>
    /\ UNCHANGED <<nameVars, identVars, parseVars, genVars>>

\* the comprehension is complete: struct_cache[typ] is assigned and
\* get_struct returns into the get_field that called it, or into hash_rihs01
ReturnStruct ==
    /\ rsPc = "run"
    /\ LET n    == Len(rsStack)
           top  == rsStack[n]
           fs   == StructFields(rsStore, top.typ)
           cache == (top.typ :> [type_name |-> top.typ, fields |-> top.fields]) @@ struct_cache
       IN  /\ top.idx > Len(fs)
           /\ struct_cache' = cache
           /\ IF n = 1
              THEN /\ rsStack' = <<>>
                   /\ rsResult' = <<rihs_dct(rsRoot, cache)>>
                   /\ rsPc' = "done"
              ELSE /\ LET caller == rsStack[n - 1]
                          f == StructFields(rsStore, caller.typ)[caller.idx]
                      IN  rsStack' = [SubSeq(rsStack, 1, n - 1) EXCEPT ![n - 1] =
                                         [caller EXCEPT !.idx = caller.idx + 1,
                                                        !.fields = Append(caller.fields, get_field(f.name, f.desc))]]
                   /\ UNCHANGED <<rsResult, rsPc>>
    /\ UNCHANGED <<rsStore, rsRoot, rsCalls>>
    /\ UNCHANGED <<nameVars, identVars, parseVars, genVars>>

NextRihs == HashRihs01 \/ GetField \/ ReturnStruct

(***************************************************************************)
(* msg.py: gendefhash.                                                     *)
(*                                                                         *)
(* A token is [kind, segs, sub]: a literal piece of text, a number written *)
(* by str(), an identifier (its characters), a path written by str(Path)   *)
(* (its segments), or the hex digest of md5 over a text (sub, the hashed   *)
(* lines).  md5 is taken to be injective.                                  *)
(***************************************************************************)
Txt(t) == [kind |-> "txt", segs |-> <<t>>, sub |-> <<>>]

Num(n) == [kind |-> "num", segs |-> <<ToString(n)>>, sub |-> <<>>]

Ident(chars) == [kind |-> "id", segs |-> chars, sub |-> <<>>]

PathTok(name) == [kind |-> "path", segs |-> name, sub |-> <<>>]

\* md5('\n'.join(hashtext).encode()).hexdigest()
Md5Tok(lines) == [kind |-> "md5", segs |-> <<>>, sub |-> lines]

\* '\n'.join(lines): a text is the sequence of its lines, and the join of
\* the single empty line is the empty text
JoinLines(lines) == IF lines = <<<<>>>> THEN <<>> ELSE lines

\* subdefs[subname] = ('', '')
EmptyEntry == [def |-> <<>>, hash |-> Txt("")]

\* subdefs is an insertion-ordered dict: the sequence of its items
SubHas(sd, key) == \E i \in 1..Len(sd) : sd[i].key = key

SubGet(sd, key) == sd[CHOOSE i \in 1..Len(sd) : sd[i].key = key].val

\* Faulty variant: an assignment to a key already present moves the item to
\* the end.
SubSet_reinsert(sd, key, val) ==
    LET IsOther(item) == item.key # key
    IN  Append(SelectSeq(sd, IsOther), [key |-> key, val |-> val])

SubSet(sd, key, val) ==
    IF SubHas(sd, key)
    THEN [i \in 1..Len(sd) |-> IF sd[i].key = key THEN [key |-> key, val |-> val] ELSE sd[i]]
    ELSE Append(sd, [key |-> key, val |-> val])

\* Faulty variant: no sentinel is inserted before the recursive call.
subdefs_sentinel_missing(sd, subname) == sd

\* lines 447 and 471: subdefs[subname] = ('', '')
subdefs_sentinel(sd, subname) == SubSet(sd, subname, EmptyEntry)

typemap(ros_version) ==
    IF ros_version = 1
    THEN (TimeName :> "time") @@ (DurationName :> "duration")
    ELSE <<>>

\* lines 431-435 and 458-461: the text of a base type
BaseTokens(inner) ==
    IF inner.name = <<"octet">> THEN <<Txt("byte")>>
    ELSE IF inner.name = <<"string">>
    THEN IF inner.bound # 0 THEN <<Txt("string<="), Num(inner.bound)>>
         ELSE <<Txt("string")>>
    ELSE <<Txt(inner.name[1])>>

\* line 456 and the brackets of lines 462-473: f'[{count}]'
BracketTokens(desc) ==
    LET count == IF desc.num = 0 THEN <<>>
                 ELSE IF desc.node = ARRAY THEN <<Num(desc.num)>>
                 ELSE <<Txt("<="), Num(desc.num)>>
    IN  <<Txt("[")>> \o count \o <<Txt("]")>>

NameTokens(name) == <<Txt(" "), Ident(rstrip_underscore(name))>>

\* whether the field makes gendefhash look its type up in subdefs
NeedsSub(desc, ros_version) ==
    /\ desc.node # BASE
    /\ desc.inner.node = NAME
    /\ desc.inner.name \notin DOMAIN typemap(ros_version)

\* the line appended to deftext for a field (lines 436, 443, 449, 462, 466, 473)
DefLine(f, ros_version) ==
    LET d == f.desc
        t == IF d.inner.node = BASE THEN BaseTokens(d.inner)
             ELSE IF d.inner.name \in DOMAIN typemap(ros_version)
             THEN <<Txt(typemap(ros_version)[d.inner.name])>>
             ELSE <<PathTok(denormalize_msgtype(d.inner.name))>>
    IN  IF d.node \in {BASE, NAME} THEN t \o NameTokens(f.name)
        ELSE t \o BracketTokens(d) \o NameTokens(f.name)

\* Faulty variant: the hash line of an array or sequence of a sub-type
\* keeps its bracket suffix.
HashLine_with_bracket(f, ros_version, sd) ==
    IF ~NeedsSub(f.desc, ros_version) THEN DefLine(f, ros_version)
    ELSE IF f.desc.node = NAME
    THEN <<SubGet(sd, f.desc.inner.name).hash>> \o NameTokens(f.name)
    ELSE <<SubGet(sd, f.desc.inner.name).hash>> \o BracketTokens(f.desc) \o NameTokens(f.name)

\* the line appended to hashtext for a field (lines 437, 444, 450, 463, 467, 474)
HashLine(f, ros_version, sd) ==
    IF ~NeedsSub(f.desc, ros_version) THEN DefLine(f, ros_version)
    ELSE <<SubGet(sd, f.desc.inner.name).hash>> \o NameTokens(f.name)

\* lines 421-424: the line of a constant, in deftext and in hashtext
ConstLine(c) ==
    <<Txt(c.typ), Txt(" "), Ident(rstrip_underscore(c.name)), Txt("="), Num(c.value)>>

ConstLines(consts) == [i \in 1..Len(consts) |-> ConstLine(consts[i])]

\* lines 409-426: a call of gendefhash whose type is known, at its first field
EnterGen(stack, store, typename) ==
    Append(stack, [typ      |-> typename,
                   idx      |-> 1,
                   deftext  |-> ConstLines(store[typename].consts),
                   hashtext |-> ConstLines(store[typename].consts)])

\* lines 476-481: the value gendefhash returns
gen_return(frame, ros_version) ==
    LET seq == IF ros_version = 1 /\ frame.typ = HeaderName
               THEN <<<<Txt("uint32 seq")>>>> ELSE <<>>
    IN  [def  |-> JoinLines(seq \o frame.deftext \o <<<<>>>>),
         hash |-> Md5Tok(JoinLines(seq \o frame.hashtext))]

\* Stores gendefhash is run on.
TypeM == <<"pkg", "msg", "M">>

FieldKw == <<"a", "s", "_">>

GenDescs ==
    { BaseDesc("octet", 0), BaseDesc("string", MaxNum),
      NameDesc(TypeA), NameDesc(TypeB), NameDesc(TypeM),
      NameDesc(TimeName), NameDesc(HeaderName),
      ArrayDesc(NameDesc(TypeB), MaxNum),
      SequenceDesc(NameDesc(TypeB), 0),
      SequenceDesc(NameDesc(TypeB), MaxNum),
      SequenceDesc(NameDesc(TimeName), 0),
      SequenceDesc(BaseDesc("octet", 0), 0),
      ArrayDesc(BaseDesc("string", MaxNum), MaxNum) }

GenFieldsA ==
    {<<>>} \cup {<<[name |-> FieldKw, desc |-> d]>> : d \in GenDescs}
           \cup {<<[name |-> FieldKw, desc |-> d]>> \o <<[name |-> FieldY, desc |-> e]>> :
                    d \in GenDescs, e \in GenDescs}

GenFieldsB ==
    { <<>>,
      <<[name |-> FieldX, desc |-> BaseDesc("int32", 0)]>>,
      <<[name |-> SentinelName, desc |-> BaseDesc("uint8", 0)]>>,
      <<[name |-> FieldX, desc |-> NameDesc(TypeA)]>>,
      <<[name |-> FieldX, desc |-> NameDesc(TypeM)]>>,
      <<[name |-> FieldX, desc |-> SequenceDesc(NameDesc(TypeB), 0)]>> }

InitGen ==
    /\ \E fa \in GenFieldsA, fb \in GenFieldsB :
          gsStore =
              (TypeA :> [consts |-> <<[name |-> FieldKw, typ |-> "int32", value |-> 1]>>,
                         fields |-> fa])
              @@ (TypeB :> [consts |-> <<>>, fields |-> fb])
              @@ (HeaderName :> [consts |-> <<>>,
                                 fields |-> <<[name |-> FieldX, desc |-> NameDesc(TimeName)]>>])
              @@ (TimeName :> [consts |-> <<>>,
                               fields |-> <<[name |-> FieldX, desc |-> BaseDesc("int32", 0)]>>])
    /\ gsRoot \in {TypeA, HeaderName, TypeM}
    /\ gsRos \in {1, 2}
    /\ gsSubdefs0 \in {<<>>,
                       <<[key |-> TypeB,
                          val |-> [def |-> <<>>, hash |-> Md5Tok(<<>>)]]>>}
    /\ subdefs = gsSubdefs0
    /\ gsStack = <<>>
    /\ gsCalls = 0
    /\ gsResult = <<>>
    /\ gsPc = "call"
    /\ gsEntered = <<>>
    /\ gsMsgdef = <<>>

IdleGen ==
    /\ gsStore = <<>>
    /\ gsRoot = <<>>
    /\ gsRos = 0
    /\ gsSubdefs0 = <<>>
    /\ subdefs = <<>>
    /\ gsStack = <<>>
    /\ gsCalls = 0
    /\ gsResult = <<>>
    /\ gsPc = "idle"
    /\ gsEntered = <<>>
    /\ gsMsgdef = <<>>

\* gendefhash(typename, subdefs, typestore, ros_version) as the caller calls
\* it, up to its first field
GenCall ==
    /\ gsPc = "call"
    /\ gsCalls' = 1
    /\ gsEntered' = <<gsRoot>>
    /\ IF gsRoot \notin DOMAIN gsStore
       THEN /\ gsPc' = "TypesysError"
            /\ UNCHANGED gsStack
       ELSE /\ gsPc' = "run"
            /\ gsStack' = EnterGen(<<>>, gsStore, gsRoot)
    /\ UNCHANGED <<gsStore, gsRoot, gsRos, gsSubdefs0, subdefs, gsResult, gsMsgdef>>
    /\ UNCHANGED <<nameVars, identVars, parseVars, rihsVars>>

\* one iteration of the loop over the fields in the innermost call
GenField ==
    /\ gsPc = "run"
    /\ LET n   == Len(gsStack)
           top == gsStack[n]
           fs  == gsStore[top.typ].fields
       IN  /\ top.idx <= Len(fs)
           /\ LET f   == fs[top.idx]
                  sub == f.desc.inner.name
              IN  IF f.name = SentinelName
                  THEN /\ gsStack' = [gsStack EXCEPT ![n].idx = top.idx + 1]
                       /\ UNCHANGED <<subdefs, gsCalls, gsEntered, gsPc>>
                  ELSE IF NeedsSub(f.desc, gsRos) /\ ~SubHas(subdefs, sub)
                  THEN \* the sentinel, then the recursive call
                       /\ subdefs' = subdefs_sentinel(subdefs, sub)
                       /\ gsCalls' = gsCalls + 1
                       /\ gsEntered' = Append(gsEntered, sub)
                       /\ IF sub \notin DOMAIN gsStore
                          THEN /\ gsPc' = "TypesysError"
                               /\ UNCHANGED gsStack
                          ELSE /\ gsStack' = EnterGen(gsStack, gsStore, sub)
                               /\ UNCHANGED gsPc
                  ELSE /\ gsStack' = [gsStack EXCEPT ![n] =
                                         [top EXCEPT !.idx = top.idx + 1,
                                                     !.deftext = Append(top.deftext, DefLine(f, gsRos)),
                                                     !.hashtext = Append(top.hashtext, HashLine(f, gsRos, subdefs))]]
                       /\ UNCHANGED <<subdefs, gsCalls, gsEntered, gsPc>>
    /\ UNCHANGED <<gsStore, gsRoot, gsRos, gsSubdefs0, gsResult, gsMsgdef>>
    /\ UNCHANGED <<nameVars, identVars, parseVars, rihsVars>>

\* the loop of the innermost call is over: it returns, into the assignment
\* subdefs[subname] = gendefhash(...) of its caller and the two appends that
\* follow it, or to the caller of the outermost call
GenReturn ==
    /\ gsPc = "run"
    /\ LET n   == Len(gsStack)
           top == gsStack[n]
           ret == gen_return(top, gsRos)
       IN  /\ top.idx > Len(gsStore[top.typ].fields)
           /\ IF n = 1
              THEN /\ gsResult' = <<ret>>
                   /\ gsStack' = <<>>
                   /\ gsPc' = "done"
                   /\ UNCHANGED subdefs
              ELSE LET caller == gsStack[n - 1]
                       f  == gsStore[caller.typ].fields[caller.idx]
                       sd == SubSet(subdefs, top.typ, ret)
                   IN  /\ subdefs' = sd
                       /\ gsStack' = [SubSeq(gsStack, 1, n - 1) EXCEPT ![n - 1] =
                                         [caller EXCEPT !.idx = caller.idx + 1,
                                                        !.deftext = Append(caller.deftext, DefLine(f, gsRos)),
                                                        !.hashtext = Append(caller.hashtext, HashLine(f, gsRos, sd))]]
                       /\ UNCHANGED <<gsResult, gsPc>>
    /\ UNCHANGED <<gsStore, gsRoot, gsRos, gsSubdefs0, gsCalls, gsEntered, gsMsgdef>>
    /\ UNCHANGED <<nameVars, identVars, parseVars, rihsVars>>

NextGen == GenCall \/ GenField \/ GenReturn

(***************************************************************************)
(* msg.py: generate_msgdef.                                                *)
(***************************************************************************)
\* a + b for two texts: the last line of a goes on in the first line of b
StrCat(a, b) ==
    IF a = <<>> THEN b
    ELSE IF b = <<>> THEN a
    ELSE JoinLines(SubSeq(a, 1, Len(a) - 1) \o <<a[Len(a)] \o b[1]>> \o Tail(b))

\* ''.join(parts)
RECURSIVE str_join(_)
str_join(parts) ==
    IF parts = <<>> THEN <<>> ELSE StrCat(parts[1], str_join(Tail(parts)))

\* "=" * 80
SepLine == <<Txt("================================================================================")>>

\* 'MSG: ' and the denormalized name
MsgLine(k) == <<Txt("MSG: "), PathTok(denormalize_msgtype(k))>>

\* f'{"=" * 80}\nMSG: {denormalize_msgtype(k)}\n{v[0]}'
Block(k, v) == StrCat(<<SepLine, MsgLine(k), <<>>>>, v.def)

\* the list comprehension over subdefs.items()
msgdef_blocks(sd) == [i \in 1..Len(sd) |-> Block(sd[i].key, sd[i].val)]

\* Stores generate_msgdef is run on: no type refers back to itself.
MsgdefDescsA ==
    { BaseDesc("octet", 0),
      NameDesc(TypeB), NameDesc(TypeM), NameDesc(HeaderName),
      SequenceDesc(NameDesc(TypeM), 0),
      ArrayDesc(NameDesc(TimeName), MaxNum) }

MsgdefDescsB ==
    { BaseDesc("string", MaxNum),
      NameDesc(TypeM), NameDesc(TimeName),
      ArrayDesc(NameDesc(TypeM), MaxNum) }

MsgdefFields(descs) ==
    {<<>>} \cup {<<[name |-> FieldKw, desc |-> d]>> : d \in descs}
           \cup {<<[name |-> FieldKw, desc |-> d]>> \o <<[name |-> FieldY, desc |-> e]>> :
                    d \in descs, e \in descs}

MsgdefFieldsM ==
    { <<>>,
      <<[name |-> SentinelName, desc |-> BaseDesc("uint8", 0)]>>,
      <<[name |-> FieldX, desc |-> NameDesc(HeaderName)]>>,
      <<[name |-> FieldX, desc |-> SequenceDesc(NameDesc(TimeName), 0)]>> }

InitMsgdef ==
    /\ \E fa \in MsgdefFields(MsgdefDescsA), fb \in MsgdefFields(MsgdefDescsB),
          fm \in MsgdefFieldsM :
          gsStore =
              (TypeA :> [consts |-> <<[name |-> FieldKw, typ |-> "int32", value |-> 1]>>,
                         fields |-> fa])
              @@ (TypeB :> [consts |-> <<>>, fields |-> fb])
              @@ (TypeM :> [consts |-> <<>>, fields |-> fm])
              @@ (HeaderName :> [consts |-> <<>>,
                                 fields |-> <<[name |-> FieldX, desc |-> NameDesc(TimeName)]>>])
              @@ (TimeName :> [consts |-> <<>>,
                               fields |-> <<[name |-> FieldX, desc |-> BaseDesc("int32", 0)]>>])
    /\ gsRoot \in {TypeA, TypeB, HeaderName}
    /\ gsRos \in {1, 2}
    /\ gsSubdefs0 = <<>>
    /\ subdefs = <<>>
    /\ gsStack = <<>>
    /\ gsCalls = 0
    /\ gsResult = <<>>
    /\ gsPc = "msgdef"
    /\ gsEntered = <<>>
    /\ gsMsgdef = <<>>

\* lines 500-501: the fresh subdefs and the call of gendefhash, up to the
\* first field of the root
GenerateMsgdef ==
    /\ gsPc = "msgdef"
    /\ subdefs' = <<>>
    /\ gsCalls' = 1
    /\ gsEntered' = <<gsRoot>>
    /\ IF gsRoot \notin DOMAIN gsStore
       THEN /\ gsPc' = "TypesysError"
            /\ UNCHANGED gsStack
       ELSE /\ gsPc' = "run"
            /\ gsStack' = EnterGen(<<>>, gsStore, gsRoot)
    /\ UNCHANGED <<gsStore, gsRoot, gsRos, gsSubdefs0, gsResult, gsMsgdef>>
    /\ UNCHANGED <<nameVars, identVars, parseVars, rihsVars>>

\* lines 503-510: gendefhash has returned; the join and the return
MsgdefJoin ==
    /\ gsPc = "done"
    /\ gsMsgdef' = <<[def  |-> str_join(<<gsResult[1].def>> \o msgdef_blocks(subdefs)),
                      hash |-> gsResult[1].hash]>>
    /\ gsPc' = "returned"
    /\ UNCHANGED <<gsStore, gsRoot, gsRos, gsSubdefs0, subdefs, gsStack, gsCalls,
                   gsResult, gsEntered>>
    /\ UNCHANGED <<nameVars, identVars, parseVars, rihsVars>>

NextMsgdef == GenerateMsgdef \/ GenField \/ GenReturn \/ MsgdefJoin

(***************************************************************************)
(* Specifications.                                                         *)
(***************************************************************************)
NameInit == InitName /\ IdleIdent /\ IdleParse /\ IdleRihs /\ IdleGen
SpecName == NameInit /\ [][NextName]_vars

IdentInit == InitIdent /\ IdleName /\ IdleParse /\ IdleRihs /\ IdleGen
SpecIdent == IdentInit /\ [][NextIdent]_vars

ParseInit == InitParse /\ IdleName /\ IdleIdent /\ IdleRihs /\ IdleGen
SpecParse == ParseInit /\ [][NextParse]_vars

RihsInit == InitRihs /\ IdleName /\ IdleIdent /\ IdleParse /\ IdleGen
SpecRihs == RihsInit /\ [][NextRihs]_vars

GenInit == InitGen /\ IdleName /\ IdleIdent /\ IdleParse /\ IdleRihs
SpecGen == GenInit /\ [][NextGen]_vars

MsgdefInit == InitMsgdef /\ IdleName /\ IdleIdent /\ IdleParse /\ IdleRihs
SpecMsgdef == MsgdefInit /\ [][NextMsgdef]_vars

(***************************************************************************)
(* Claims.                                                                 *)
(***************************************************************************)
\* A valid fully-qualified name: pkg/msg/Name
IsFQN(n) == Len(n) = 3 /\ n[2] = "msg"

\* C8 (as stated): for every valid fully-qualified name T = pkg/msg/Name,
\* pkg == 'msg' and Name == 'msg' included,
\* normalize_msgtype(denormalize_msgtype(T)) == T.
C8_RoundTrip ==
    (IsFQN(nmOrig) /\ nmOps = <<"denormalize", "normalize">>)
        => (~nmErr /\ nmCur = nmOrig)

\* C9 (as stated): an identifier that went through normalize_fieldname and
\* was then stripped as gendefhash strips it is the source identifier
\* again, for keywords and for non-keywords (trailing underscores included).
C9_RoundTrip ==
    idPc = "emitted" => idOut = idSrc


(***************************************************************************)
(* The parsed dictionary.                                                  *)
(***************************************************************************)
ParsedKeys == {res[i].name : i \in 1..Len(res)}

\* the field of a dictionary entry as the visitor lowered it, before
\* normalize_fieldtype
RawField(k, i) == DictGet(typelist, res[k].name)[i].desc

ParsedField(k, i) == res[k].fields[i].desc

ParsedFields ==
    UNION {{<<k, i>> : i \in 1..Len(res[k].fields)} : k \in 1..Len(res)}

LeafDeclared(n) == Len(n) = 1 /\ \E key \in ParsedKeys : PathName(key) = n[1]

\* the relation of a lowered field f of owner to its normalized form g that
\* the five rules of the name normalizer describe, first match first
C3_FirstRule(owner, f, g) ==
    IF f.inner.node = BASE
    THEN g = f
    ELSE LET n == f.inner.name
             m == g.inner.name
         IN  /\ g.node = f.node
             /\ g.num = f.num
             /\ g.inner.node = NAME
             /\ IF LeafDeclared(n)
                THEN m \in ParsedKeys /\ PathName(m) = n[1]
                ELSE IF n = <<"Header">>
                THEN m = <<"std_msgs", "msg", "Header">>
                ELSE IF Len(n) = 1
                THEN m = <<owner[1], "msg", n[1]>>
                ELSE IF ~(\E i \in 2..(Len(n) - 1) : n[i] = "msg")
                THEN m = SubSeq(n, 1, Len(n) - 1) \o <<"msg", n[Len(n)]>>
                ELSE m = n

\* C3: for a field NAME(n) of owner pkg/msg/Owner, S the names declared in
\* the batch, the result is that of the first matching rule: (1) n bare and
\* the leaf of a declared name -> that declared name; (2) n == 'Header' ->
\* std_msgs/msg/Header; (3) n bare -> pkg/msg/n; (4) n with '/' and without
\* '/msg/' -> msg inserted before the leaf; (5) n unchanged.  BASE fields
\* are unchanged; ARRAY/SEQUENCE keep their variant and length/bound.
C3_RuleOrder ==
    psPc = "done" =>
        \A p \in ParsedFields :
            IsFQN(res[p[1]].name) =>
                C3_FirstRule(res[p[1]].name, RawField(p[1], p[2]), ParsedField(p[1], p[2]))

\* C3 witness: a bare `Header` field of a well-formed owner is captured by a
\* batch-declared x/msg/Header (rule 1 wins over rules 2 and 3).
C3_Witness ==
    /\ psPc = "done"
    /\ \E p \in ParsedFields :
          /\ IsFQN(res[p[1]].name)
          /\ RawField(p[1], p[2]).inner.node = NAME
          /\ RawField(p[1], p[2]).inner.name = <<"Header">>
          /\ RawField(p[1], p[2]).node = SEQUENCE
          /\ ParsedField(p[1], p[2]).inner.name = <<"pkg", "msg", "Header">>
          /\ res[p[1]].name # <<"pkg", "msg", "Header">>

Builtins == {HeaderName, TimeName, DurationName}

\* C6 (as stated): in every parsed dictionary, every NAME(n), own or inner,
\* has n a key of the dictionary or one of the three builtin names.  It is
\* stated here for the dictionaries whose keys are all well-formed, where it
\* fails as well.
C6_NamesResolve ==
    (psPc = "done" /\ \A key \in ParsedKeys : IsFQN(key)) =>
        \A p \in ParsedFields :
            ParsedField(p[1], p[2]).inner.node = NAME =>
                ParsedField(p[1], p[2]).inner.name \in ParsedKeys \cup Builtins

\* C6 (amended): every NAME(n) of a parsed dictionary is in normalized form
\* (its parent segment is msg, or it contains /msg/); it is a key of the
\* dictionary whenever the source name is bare and the leaf of a declared
\* name, and need not be one otherwise.
C6_NormalizedNames ==
    psPc = "done" =>
        \A p \in ParsedFields :
            ParsedField(p[1], p[2]).inner.node = NAME =>
                LET n == ParsedField(p[1], p[2]).inner.name
                IN  /\ PathName(PathParent(n)) = "msg" \/ HasMsgInfix(n)
                    /\ LeafDeclared(RawField(p[1], p[2]).inner.name) => n \in ParsedKeys

\* C6 witness: a parsed NAME field that is neither a key nor a builtin.
C6_Witness ==
    /\ psPc = "done"
    /\ \E p \in ParsedFields :
          /\ ParsedField(p[1], p[2]).inner.node = NAME
          /\ ParsedField(p[1], p[2]).inner.name \notin ParsedKeys \cup Builtins
          /\ IsFQN(res[p[1]].name)

\* C7 (as stated): every key visit_msgdef / normalize_msgtype puts into the
\* parsed dictionary has exactly three parts with the middle one msg.
C7_KeysAreFQN ==
    \A i \in 1..Len(typelist) : IsFQN(typelist[i].name)

(***************************************************************************)
(* The structural hash.                                                    *)
(***************************************************************************)
\* every field hash_rihs01 has described so far, with its descriptor
RihsPairs(typ, fields) ==
    {<<StructFields(rsStore, typ)[i].desc, fields[i]>> : i \in 1..Len(fields)}

RihsEmitted ==
    UNION {RihsPairs(t, struct_cache[t].fields) : t \in DOMAIN struct_cache}
        \cup UNION {RihsPairs(rsStack[k].typ, rsStack[k].fields) : k \in 1..Len(rsStack)}

IncrementOf(r) == (r.type_id \div 48) * 48

BaseIdOf(r) == r.type_id % 48

C2_BaseIds ==
    \A p \in RihsEmitted :
        LET d == p[1].inner
            r == p[2]
        IN  /\ (d.node = BASE /\ d.tup) =>
                  /\ BaseIdOf(r) = IF d.name # <<"string">> THEN TIDMAP[d.name[1]]
                                   ELSE IF d.bound > 0 THEN 21 ELSE 17
                  /\ r.string_capacity = d.bound
            /\ d.node = NAME =>
                  /\ BaseIdOf(r) = 1
                  /\ r.nested_type_name = d.name

\* C4 (as stated): over a store in which every NAME resolves, cycles
\* included, the hash computation terminates: a type that is in progress is
\* not entered again, and the bodies entered are at most the types of the
\* store.
C4_BoundedDescents ==
    /\ rsPc # "RecursionError"
    /\ rsCalls <= Cardinality(DOMAIN rsStore)
    /\ \A i, j \in 1..Len(rsStack) : rsStack[i].typ = rsStack[j].typ => i = j

(***************************************************************************)
(* The legacy hash.                                                        *)
(***************************************************************************)
\* C5 (as stated): when gendefhash fails with the unknown-type
\* TypesysError, for the root or for a type reached through a NAME field at
\* any depth, the caller-supplied subdefs map is what it was before the call.
C5_SubdefsUntouched ==
    gsPc = "TypesysError" => subdefs = gsSubdefs0

\* C5 (amended): when the requested root is unknown, subdefs is what it was
\* before the call; when the unknown type is reached through a NAME field,
\* every entry subdefs had before the call is kept unchanged and in place,
\* and subdefs has gained entries, the last of them the empty ('', '')
\* sentinel of the unknown type, with an empty sentinel for every sub-type
\* whose call was in progress.
C5_SentinelsLeft ==
    gsPc = "TypesysError" =>
        /\ Len(gsSubdefs0) <= Len(subdefs)
        /\ SubSeq(subdefs, 1, Len(gsSubdefs0)) = gsSubdefs0
        /\ gsRoot \notin DOMAIN gsStore => subdefs = gsSubdefs0
        /\ gsRoot \in DOMAIN gsStore =>
              /\ Len(subdefs) > Len(gsSubdefs0)
              /\ subdefs[Len(subdefs)].key \notin DOMAIN gsStore
              /\ subdefs[Len(subdefs)].val = EmptyEntry
              /\ \A k \in 2..Len(gsStack) :
                    /\ SubHas(subdefs, gsStack[k].typ)
                    /\ SubGet(subdefs, gsStack[k].typ) = EmptyEntry

\* C5 witness: the unknown type is met in a call made for a field of the
\* root, after another sub-type was completed.
C5_Witness ==
    /\ gsPc = "TypesysError"
    /\ Len(gsStack) = 2
    /\ Len(subdefs) >= Len(gsSubdefs0) + 3
    /\ \E i \in (Len(gsSubdefs0) + 1)..Len(subdefs) : subdefs[i].val.hash.kind = "md5"

\* the texts built so far: for a call in progress its deftext and hashtext,
\* for a completed one the body lines of its definition and the lines its
\* md5 was taken over
BodyLines(def) == IF def = <<>> THEN <<>> ELSE SubSeq(def, 1, Len(def) - 1)

GenTexts ==
    {[typ |-> gsStack[k].typ, def |-> gsStack[k].deftext, hash |-> gsStack[k].hashtext] :
        k \in 1..Len(gsStack)}
    \cup {[typ |-> subdefs[i].key, def |-> BodyLines(subdefs[i].val.def),
           hash |-> subdefs[i].val.hash.sub] :
            i \in {j \in 1..Len(subdefs) : subdefs[j].val.hash.kind = "md5"}}
    \cup {[typ |-> gsRoot, def |-> BodyLines(gsResult[i].def), hash |-> gsResult[i].hash.sub] :
            i \in 1..Len(gsResult)}

\* the types the fields of typ refer to
RefsOf(typ) ==
    IF typ \notin DOMAIN gsStore THEN {}
    ELSE {gsStore[typ].fields[i].desc.inner.name :
            i \in {j \in 1..Len(gsStore[typ].fields) :
                     gsStore[typ].fields[j].desc.inner.node = NAME}}

RECURSIVE ReachSet(_, _)
ReachSet(S, n) ==
    IF n = 0 THEN S ELSE ReachSet(S \cup UNION {RefsOf(t) : t \in S}, n - 1)

\* typ is referenced, directly or not, from a field of from
Reaches(from, typ) == typ \in ReachSet(RefsOf(from), Cardinality(DOMAIN gsStore))

IsHashToken(t) == t.kind = "md5" \/ t = Txt("")

\* C10 (as stated): hash-text lines and body lines correspond one to one in
\* the same order and differ only in lines of fields that reference a
\* sub-type: there the denormalized name is replaced by the sub-type's hash
\* and the rest of the line, bracket suffix and field name included, is
\* identical.
C10_RestIdentical ==
    \A t \in GenTexts :
        /\ Len(t.def) = Len(t.hash)
        /\ \A i \in 1..Len(t.def) :
              \/ t.def[i] = t.hash[i]
              \/ /\ t.def[i][1].kind = "path"
                 /\ IsHashToken(t.hash[i][1])
                 /\ Tail(t.hash[i]) = Tail(t.def[i])

\* the hash line of a body line that names a sub-type
C10_SubLine(owner, dl, hl) ==
    LET sub == normalize_msgtype(dl[1].segs)
    IN  /\ dl[1].kind = "path"
        /\ Len(dl) = 3 \/ (dl[2] = Txt("[") /\ dl[Len(dl) - 2] = Txt("]"))
        /\ Len(hl) = 3
        /\ SubSeq(dl, Len(dl) - 1, Len(dl)) = SubSeq(hl, 2, 3)
        /\ hl[2] = Txt(" ")
        /\ SubHas(subdefs, sub)
        /\ \/ hl[1].kind = "md5" /\ hl[1] = SubGet(subdefs, sub).hash
           \/ hl[1] = Txt("") /\ Reaches(sub, owner)

\* C10 (amended): hash-text lines and body lines correspond one to one in
\* the same order and differ only in lines of fields that reference a
\* sub-type not rendered by a short name: there the hash line is the hash
\* subdefs holds for the sub-type (its md5; the empty sentinel only on a
\* reference cycle), a blank and the field name: for a direct reference the
\* rest of the line is identical, for an ARRAY/SEQUENCE of a sub-type the
\* bracket suffix is dropped together with the name.
C10_HashLines ==
    \A t \in GenTexts :
        /\ Len(t.def) = Len(t.hash)
        /\ \A i \in 1..Len(t.def) :
              t.def[i] = t.hash[i] \/ C10_SubLine(t.typ, t.def[i], t.hash[i])

\* C10 witness: a completed definition with the line of a bounded sequence
\* of a sub-type: brackets in the body line, none in the hash line.
C10_Witness ==
    /\ gsPc = "done"
    /\ \E i \in 1..Len(gsResult[1].hash.sub) :
          LET dl == gsResult[1].def[i]
              hl == gsResult[1].hash.sub[i]
          IN  /\ dl[1] = PathTok(<<"pkg", "B">>)
              /\ dl[3] = Txt("<=")
              /\ Len(dl) = 7
              /\ hl[1].kind = "md5"
              /\ Len(hl) = 3

\* the sub-types a type names in fields that are not rendered by a short
\* name
C11_Refs(typ) ==
    {gsStore[typ].fields[i].desc.inner.name :
        i \in {j \in 1..Len(gsStore[typ].fields) :
                 NeedsSub(gsStore[typ].fields[j].desc, gsRos)}}

RECURSIVE C11_ReachSet(_, _)
C11_ReachSet(S, n) ==
    IF n = 0 THEN S
    ELSE C11_ReachSet(S \cup UNION {C11_Refs(t) : t \in S \cap DOMAIN gsStore}, n - 1)

\* the types transitively reachable from the root through such fields
C11_Reachable == C11_ReachSet(C11_Refs(gsRoot), Cardinality(DOMAIN gsStore))

SeqHas(seq, x) == \E i \in 1..Len(seq) : seq[i] = x

\* the depth-first walk over the fields of typ from field i on, in
\* declaration order: seen, extended by every type at its first encounter
RECURSIVE C11_Walk(_, _, _)
C11_Walk(typ, i, seen) ==
    IF i > Len(gsStore[typ].fields) THEN seen
    ELSE LET d   == gsStore[typ].fields[i].desc
             sub == d.inner.name
         IN  IF NeedsSub(d, gsRos) /\ ~SeqHas(seen, sub)
             THEN C11_Walk(typ, i + 1, C11_Walk(sub, 1, Append(seen, sub)))
             ELSE C11_Walk(typ, i + 1, seen)

C11_FirstEncounters == C11_Walk(gsRoot, 1, <<>>)

IsMsgLine(line) == Len(line) >= 1 /\ line[1] = Txt("MSG: ")

Occurrences(seq, x) == Cardinality({i \in 1..Len(seq) : seq[i] = x})

\* C11: for an acyclic store and a root of it, the text generate_msgdef
\* returns is the root body followed by exactly one block, a line of 80 '='
\* and a line MSG: <denormalized name>, for each type transitively reachable
\* from the root through NAME fields not rendered by a short name, by no
\* block for any other type, the blocks in the order in which the
\* depth-first walk over the fields in declaration order first encounters
\* the types; the gendefhash body of the root and of each such type is
\* entered exactly once, that of no other type at all.
C11_BlocksInWalkOrder ==
    gsPc = "returned" =>
        LET text == gsMsgdef[1].def
            body == BodyLines(gsResult[1].def)
            exp  == C11_FirstEncounters
            hdr  == SelectSeq(text, IsMsgLine)
        IN  /\ SubSeq(text, 1, Len(body)) = body
            /\ \A i \in 1..Len(body) : body[i] # SepLine /\ ~IsMsgLine(body[i])
            /\ Len(hdr) = Len(exp)
            /\ \A i \in 1..Len(exp) : hdr[i] = MsgLine(exp[i])
            /\ \A i \in 1..Len(text) : IsMsgLine(text[i]) => i > 1 /\ text[i - 1] = SepLine
            /\ Occurrences(text, SepLine) = Len(exp)
            /\ {exp[i] : i \in 1..Len(exp)} = C11_Reachable
            /\ \A i, j \in 1..Len(exp) : exp[i] = exp[j] => i = j
            /\ \A t \in DOMAIN gsStore \cup C11_Reachable \cup {gsRoot} :
                  Occurrences(gsEntered, t) = IF t = gsRoot \/ t \in C11_Reachable THEN 1 ELSE 0
            /\ gsRoot \notin C11_Reachable

\* C11 witness: a diamond.  The root names B and M, B names M before the
\* root does; generate_msgdef has returned the blocks of B and of M, in
\* that order, after three entered bodies.
C11_Witness ==
    /\ gsPc = "returned"
    /\ gsRoot = TypeA
    /\ TypeB \in C11_Refs(TypeA)
    /\ TypeM \in C11_Refs(TypeA)
    /\ TypeM \in C11_Refs(TypeB)
    /\ SelectSeq(gsMsgdef[1].def, IsMsgLine) = <<MsgLine(TypeB), MsgLine(TypeM)>>
    /\ gsEntered = <<TypeA, TypeB, TypeM>>

====
